---------------------------- MODULE Spec2Model ----------------------------
(***************************************************************************)
(* A model of skiff-dispatcher-smtp (src/lib/index.js): a cluster of nodes *)
(* that routes SMTP work for an owner (username) to the node holding the   *)
(* owner's pooled connection.                                              *)
(*                                                                         *)
(* Every node runs the five exported handlers on one event loop, so a      *)
(* handler and every call it makes synchronously are one atomic step.      *)
(* Asynchronous hops are separate steps: a remote call is a message in     *)
(* msgs, setImmediate is an entry of immediates, a token refresh is an     *)
(* entry of refreshing.  A callback is modelled as the stack of frames     *)
(* that run when it is invoked.                                            *)
(*                                                                         *)
(* Collaborators outside the repository (gossip cluster store, remote call *)
(* transport, callback-queue, lru-cache, xoauth2) are modelled by the way  *)
(* the source uses them.                                                   *)
(***************************************************************************)
EXTENDS Naturals, Sequences, FiniteSets, Bags, TLC

(***************************************************************************)
(* Input domains and bounds                                                *)
(***************************************************************************)
Nodes == {"n1", "n2"}
Owners == {"u1", "u2"}
\* credentials.provider: gmail (OAuth), yahoo and aol (static, one case of
\* the switch), anything else
StaticProviders == {"yahoo", "aol"}
\* the providers the requests of the routing specification name
RouteProviders == {"gmail", "unknown"}
\* the providers the requests of the credentials specification name
CredProviders == {"gmail", "yahoo", "unknown"}

\* number of client requests injected
MaxReqs == 2
\* number of client requests of the runs that call single handlers directly
MaxDirectReqs == 3
\* number of nodes that may go down
MaxDown == 1
\* number of leader changes
MaxLeaderChanges == 1
\* clock: minutes, advanced TickStep at a time up to MaxTime
MaxTime == 7
TickStep == 2

\* connectionCache max (1000 in the source), scaled so that capacity
\* eviction happens with the owners above
ConnCacheMax == 1
\* credentialsCache max (10000 in the source), scaled likewise
CredCacheMax == 1
\* 1000 * 60 * 5 ms, in minutes
FreshnessWindow == 5

NULL == "null"
\* a value that is not a function (undefined, true): calling it throws
NotCallable == <<>>

\* errors passed as the first callback argument
ErrUnsupported == "Error: passed provider is not supported"
ErrCreds == "{user, pass}"
ErrRefresh == "Error: token refresh failed"
ErrRemote == "Error: remote call failed"

\* this.ok(operation, username)
ok(operation, username) == <<operation, username>>
LeaderKey == <<"leader", "">>
OpNames == {"getSMTPConnection", "establishSMTPConnection",
            "generateOAuthCredentials", "getSMTPCredentials"}
OpKeys == {ok(op, u) : op \in OpNames, u \in Owners}

\* the arguments a callback is invoked with: (err, nodeId) or (err, {user, xoauth2})
Res(err, id, tok) == [err |-> err, id |-> id, tok |-> tok]

(***************************************************************************)
(* Callbacks.  A callback is the sequence of frames that run, first to     *)
(* last, when it is invoked; NotCallable is a value that is no function.   *)
(***************************************************************************)
Frame(k, n, u, op, a) == [k |-> k, n |-> n, u |-> u, op |-> op, a |-> a]
\* the caller's callback of client request i
ClientCb(i) == <<Frame("client", "", "", "", i)>>
\* the continuation of a remote call issued by node n: the reply travels back
\* to n, where next is invoked with it
ReplyTo(n, next) == <<Frame("reply", n, "", "", 0)>> \o next
\* the function callbackQueue.add returned on node n for ok(op, u)
DoneCb(n, op, u) == <<Frame("done", n, u, op, 0)>>
\* connectionCallback of getSMTPConnection(u) on node n; hasCallback says
\* whether its variable callback holds a function
ConnectionCallback(n, u, hasCallback) ==
    <<Frame("connectionCallback", n, u, "", IF hasCallback THEN 1 ELSE 0)>>
\* receivedCredentials of establishSMTPConnection(u) on node n
ReceivedCredentials(n, u) == <<Frame("receivedCredentials", n, u, "", 0)>>

\* a message of the remote call transport
Msg(to, op, user, prov, force, cont, res) ==
    [to |-> to, op |-> op, user |-> user, prov |-> prov, force |-> force,
     cont |-> cont, res |-> res]
NoRes == Res(NULL, NULL, 0)

VARIABLES
    online,           \* the nodes that are up
    cluster,          \* this.gossip.cluster: key -> node id or NULL
    connectionCache,  \* per node, LRU order (least recent first) of entries
    credentialsCache, \* per node, LRU order of token generator entries
    callbackQueue,    \* per node and operation key, the waiting callbacks
    immediates,       \* per node, the setImmediate queue
    msgs,             \* remote calls and replies in flight (a bag)
    refreshing,       \* generateToken calls in flight
    now,              \* Date.now(), in minutes
    reqs,             \* the client requests issued so far
    results,          \* per client request, the results its callback got
    issued,           \* per node and owner, the establish calls the
                      \* assignment step of getSMTPConnection issued so far
    evicted,          \* the <<node, key>> of every entry disposed of so far
    last,             \* the handler the last step ran
    downs,            \* nodes gone down so far
    leaderChanges,    \* leader changes so far
    maxReqs,          \* the number of client requests the run may make
    thisBound,        \* build: callbacks are invoked with this = dispatcher
    gmailDefined      \* build: generateGmailCredentials is the OAuth generator

vars == <<online, cluster, connectionCache, credentialsCache, callbackQueue,
          immediates, msgs, refreshing, now, reqs, results, issued, evicted,
          last, downs, leaderChanges, maxReqs, thisBound, gmailDefined>>

\* the part of the state the handlers of a step read and write
Cur ==
    [cluster |-> cluster, connectionCache |-> connectionCache,
     credentialsCache |-> credentialsCache, callbackQueue |-> callbackQueue,
     immediates |-> immediates, msgs |-> msgs, refreshing |-> refreshing,
     results |-> results, issued |-> issued, evicted |-> evicted]

Commit(st) ==
    /\ cluster' = st.cluster
    /\ connectionCache' = st.connectionCache
    /\ credentialsCache' = st.credentialsCache
    /\ callbackQueue' = st.callbackQueue
    /\ immediates' = st.immediates
    /\ msgs' = st.msgs
    /\ refreshing' = st.refreshing
    /\ results' = st.results
    /\ issued' = st.issued
    /\ evicted' = st.evicted

(***************************************************************************)
(* Collaborators                                                           *)
(***************************************************************************)
\* cluster.set(key, value)
ClusterSet(st, key, value) == [st EXCEPT !.cluster[key] = value]

\* this.peerOnline(id) on node n: a live peer; a node is not its own peer
PeerOnline(n, id) == id # n /\ id \in online

\* this._remoteCall(to, op, args, next) on node n: the handler op runs on
\* node to as op(args..., callback) and next gets what it calls back with
RemoteCall(st, n, to, op, user, prov, force, next) ==
    [st EXCEPT !.msgs = @ (+) SetToBag({Msg(to, op, user, prov, force,
                                            ReplyTo(n, next), NoRes)})]

\* setImmediate(next, err)
SetImmediate(st, n, next, res) ==
    [st EXCEPT !.immediates[n] = Append(@, [cb |-> next, res |-> res])]

\* callbackQueue.add(key, next): the first caller for a key gets the function
\* that resolves the queue, a later one is queued and gets nothing
Add(st, n, key, next) ==
    [first |-> st.callbackQueue[n][key] = <<>>,
     st |-> [st EXCEPT !.callbackQueue[n][key] = Append(@, next)]]

\* lru-cache: position of user in a cache, 0 when absent
LruIndex(c, user) ==
    IF \E i \in 1..Len(c) : c[i].user = user
    THEN CHOOSE i \in 1..Len(c) : c[i].user = user
    ELSE 0
LruHas(c, user) == LruIndex(c, user) # 0
LruWithout(c, i) == SubSeq(c, 1, i - 1) \o SubSeq(c, i + 1, Len(c))
\* cache.get(user) makes the entry the most recently used
LruTouch(c, user) ==
    LET i == LruIndex(c, user) IN
    IF i = 0 THEN c ELSE Append(LruWithout(c, i), c[i])
\* cache.set(user, entry): the entries that stay and the ones disposed of
\* (a replaced entry, then the least recently used ones over max)
LruSet(c, entry, max) ==
    LET i == LruIndex(c, entry.user)
        replaced == IF i = 0 THEN <<>> ELSE <<c[i]>>
        all == Append(IF i = 0 THEN c ELSE LruWithout(c, i), entry)
        over == IF Len(all) > max THEN Len(all) - max ELSE 0
    IN  [cache |-> SubSeq(all, over + 1, Len(all)),
         disposed |-> replaced \o SubSeq(all, 1, over)]
\* a dispose that closes the handle but leaves the directory pointer in place
DisposeKeepsPointer(st, n, entry) ==
    [st EXCEPT !.evicted = @ \cup {<<n, entry.key>>}]

\* the dispose hook of both caches on node n: (connection.it.close(), then)
\* cluster.set(entry.key, null)
DisposeEntry(st, n, entry) ==
    [ClusterSet(st, entry.key, NULL) EXCEPT !.evicted = @ \cup {<<n, entry.key>>}]

RECURSIVE Dispose(_, _, _)
Dispose(st, n, entries) ==
    IF entries = <<>> THEN st
    ELSE Dispose(DisposeEntry(st, n, Head(entries)), n, Tail(entries))

(***************************************************************************)
(* Invoking a callback                                                     *)
(***************************************************************************)
RECURSIVE Invoke(_, _, _), InvokeAll(_, _, _), Resolve(_, _, _, _)

\* the function callbackQueue.add returned: every queued callback is invoked
\* with the same arguments and the queue is cleared
Resolve(st, n, key, res) ==
    LET waiters == st.callbackQueue[n][key]
        cleared == [st EXCEPT !.callbackQueue[n][key] = <<>>]
    IN  InvokeAll(cleared, waiters, res)

InvokeAll(st, waiters, res) ==
    IF waiters = <<>> THEN st
    ELSE InvokeAll(Invoke(st, Head(waiters), res), Tail(waiters), res)

\* connectionCallback(err, nodeId) of getSMTPConnection
RunConnectionCallback(st, f, res) ==
    LET operationKey == ok("getSMTPConnection", f.u) IN
    IF res.err # NULL
    THEN IF f.a = 1 THEN Resolve(st, f.n, operationKey, Res(res.err, NULL, 0))
         ELSE st
    ELSE LET set == ClusterSet(st, operationKey, res.id) IN
         IF f.a = 1 THEN Resolve(set, f.n, operationKey, Res(NULL, res.id, 0))
         ELSE set

\* receivedCredentials(err, authenticationOptions) of establishSMTPConnection:
\* this.id is the node's id only when the callback is invoked with
\* this = dispatcher; with this undefined reading it throws
RunReceivedCredentials(st, f, res) ==
    LET operationKey == ok("establishSMTPConnection", f.u) IN
    IF res.err # NULL
    THEN Resolve(st, f.n, operationKey, Res(res.err, NULL, 0))
    ELSE IF thisBound
         THEN Resolve(st, f.n, operationKey, Res(NULL, f.n, 0))
         ELSE st

Invoke(st, cb, res) ==
    IF cb = NotCallable THEN st
    ELSE LET f == Head(cb)
             rest == Tail(cb)
         IN CASE f.k = "client" ->
                   [st EXCEPT !.results[f.a] = Append(@, res)]
              [] f.k = "reply" ->
                   [st EXCEPT !.msgs = @ (+) SetToBag({Msg(f.n, "reply", "", "",
                                                         FALSE, rest, res)})]
              [] f.k = "done" -> Resolve(st, f.n, ok(f.op, f.u), res)
              [] f.k = "connectionCallback" -> RunConnectionCallback(st, f, res)
              [] f.k = "receivedCredentials" -> RunReceivedCredentials(st, f, res)
(***************************************************************************)
(* The exported handlers.  ch holds what the step does not decide:         *)
(* ch.peer is randomPeerOrSelf() of getSMTPConnection, ch.credPeer the one *)
(* of getSMTPCredentials, ch.closeThrows whether closing a connection      *)
(* throws.                                                                 *)
(***************************************************************************)

\* generateOAuthCredentials(username, credentials, next) on node n
GenerateOAuthCredentials(st, n, user, next) ==
    LET operationKey == ok("generateOAuthCredentials", user)
        a == Add(st, n, operationKey, next)
        cache == a.st.credentialsCache[n]
        hit == LruHas(cache, user)
        created == [user |-> user, key |-> operationKey, token |-> 0,
                    timer |-> 0, born |-> 0]
        set == LruSet(cache, created, CredCacheMax)
        s1 == IF hit
              THEN [a.st EXCEPT !.credentialsCache[n] = LruTouch(cache, user)]
              ELSE Dispose([a.st EXCEPT !.credentialsCache[n] = set.cache],
                           n, set.disposed)
        xoauth2Instance == IF hit THEN cache[LruIndex(cache, user)] ELSE created
        s2 == ClusterSet(s1, operationKey, n)
    IN  IF ~a.first THEN a.st
        ELSE IF /\ xoauth2Instance.token # 0
                /\ \/ xoauth2Instance.timer = 0
                   \/ xoauth2Instance.timer + FreshnessWindow > now
             THEN Resolve(s2, n, operationKey, Res(NULL, NULL, xoauth2Instance.token))
             ELSE [s2 EXCEPT !.refreshing =
                      @ \cup {[n |-> n, user |-> user, token |-> xoauth2Instance.token]}]

\* this.generateGmailCredentials(username, credentials, next): no function of
\* that name is defined in the source, so the call throws unless the build
\* installs the OAuth generator under it (init registers
\* exports.generateGmailCredentials as the remote generateOAuthCredentials)
GenerateGmailCredentials(st, n, user, next) ==
    IF gmailDefined THEN GenerateOAuthCredentials(st, n, user, next) ELSE st

\* a default branch that completes its caller without an error
UnsupportedProviderSucceeds(st, n, next) ==
    SetImmediate(st, n, next, NoRes)

\* the default case: setImmediate(next, new Error(...))
UnsupportedProvider(st, n, next) ==
    SetImmediate(st, n, next, Res(ErrUnsupported, NULL, 0))

\* the static providers: setImmediate(next, _.pick(credentials, ...)), the
\* picked credentials being the first argument of next, its err
StaticCredentials(st, n, next) ==
    SetImmediate(st, n, next, Res(ErrCreds, NULL, 0))

\* getSMTPCredentials(username, credentials, next) on node n
GetSMTPCredentials(st, ch, n, user, prov, next) ==
    CASE prov = "gmail" ->
           LET cache == st.credentialsCache[n]
               oauthCredentialsKey == ok("generateOAuthCredentials", user)
               credentialsNodeId == st.cluster[oauthCredentialsKey]
               currentLeader == st.cluster[LeaderKey]
               operationKey == ok("getSMTPCredentials", user)
               a == Add(st, n, operationKey, next)
               callback == IF a.first THEN DoneCb(n, "getSMTPCredentials", user)
                           ELSE NotCallable
           IN  IF LruHas(cache, user)
               THEN GenerateGmailCredentials(
                        [st EXCEPT !.credentialsCache[n] = LruTouch(cache, user)],
                        n, user, next)
               ELSE IF credentialsNodeId # NULL /\ PeerOnline(n, credentialsNodeId)
               THEN RemoteCall(st, n, credentialsNodeId, "generateOAuthCredentials",
                               user, prov, FALSE, next)
               ELSE IF currentLeader # n
               THEN RemoteCall(st, n, currentLeader, "getSMTPCredentials",
                               user, prov, FALSE, next)
               ELSE IF ch.credPeer # n
               THEN RemoteCall(a.st, n, ch.credPeer, "generateOAuthCredentials",
                               user, prov, FALSE, callback)
               ELSE GenerateGmailCredentials(a.st, n, user, callback)
      [] prov \in StaticProviders -> StaticCredentials(st, n, next)
      [] OTHER -> UnsupportedProvider(st, n, next)

\* connectionCache.set(username, entry) on node n: lru-cache inserts the entry
\* and, over max, disposes of the least recently used ones, removing an
\* entry after its dispose hook returned.  connection.it.close() may throw
\* (ch.closeThrows): the hook is left before cluster.set, the entry is not
\* removed and the exception leaves set() and its caller
ConnectionCacheSet(st, ch, n, entry) ==
    LET cache == st.connectionCache[n]
        set == LruSet(cache, entry, ConnCacheMax)
    IN  IF set.disposed # <<>> /\ ch.closeThrows
        THEN [threw |-> TRUE,
              st |-> [st EXCEPT !.connectionCache[n] = Append(cache, entry)]]
        ELSE [threw |-> FALSE,
              st |-> Dispose([st EXCEPT !.connectionCache[n] = set.cache],
                             n, set.disposed)]

\* establishSMTPConnection(username, credentials, next) on node n
EstablishSMTPConnection(st, ch, n, user, prov, next) ==
    LET operationKey == ok("establishSMTPConnection", user)
        a == Add(st, n, operationKey, next)
        cache == a.st.connectionCache[n]
        hit == LruHas(cache, user)
        set == ConnectionCacheSet(a.st, ch, n,
                   [user |-> user, key |-> ok("getSMTPConnection", user)])
        s1 == IF hit
              THEN [a.st EXCEPT !.connectionCache[n] = LruTouch(cache, user)]
              ELSE set.st
    IN  IF ~a.first THEN a.st
        ELSE IF ~hit /\ set.threw THEN s1
        ELSE GetSMTPCredentials(s1, ch, n, user, prov, ReceivedCredentials(n, user))

\* an ownership test that trusts the recorded pointer without asking peerOnline
OwnerIsRecorded(n, smtpNodeId) == smtpNodeId # NULL /\ smtpNodeId # n

\* smtpNodeId && this.peerOnline(smtpNodeId)
OwnerIsLive(n, smtpNodeId) == smtpNodeId # NULL /\ PeerOnline(n, smtpNodeId)

\* a forward that asks the leader for a forced establish
ForwardForced(st, n, currentLeader, user, prov, next) ==
    RemoteCall(st, n, currentLeader, "getSMTPConnection", user, prov, TRUE, next)

\* a node that is not the leader hands the request to the leader
ForwardToLeader(st, n, currentLeader, user, prov, next) ==
    RemoteCall(st, n, currentLeader, "getSMTPConnection", user, prov, FALSE, next)

\* one more establish call issued by the assignment step
Issue(st, n, user) == [st EXCEPT !.issued[n][user] = @ + 1]

\* a forced branch that goes on to establish without looking at what
\* callbackQueue.add returned
ForcedEstablishUnchecked(st, ch, n, user, prov, next) ==
    LET a == Add(st, n, ok("getSMTPConnection", user), next)
    IN  EstablishSMTPConnection(a.st, ch, n, user, prov,
                                ConnectionCallback(n, user, a.first))

\* if (force): register under the operation key; a caller that is queued
\* returns, the first one establishes on this node
ForcedEstablish(st, ch, n, user, prov, next) ==
    LET a == Add(st, n, ok("getSMTPConnection", user), next)
    IN  IF ~a.first THEN a.st
        ELSE EstablishSMTPConnection(a.st, ch, n, user, prov,
                                     ConnectionCallback(n, user, TRUE))

\* getSMTPConnection(username, credentials, force, next) on node n
GetSMTPConnection(st, ch, n, user, prov, force, next) ==
    LET currentLeader == st.cluster[LeaderKey]
        operationKey == ok("getSMTPConnection", user)
        smtpNodeId == st.cluster[operationKey]
        a == Add(st, n, operationKey, next)
    IN  IF force
        THEN ForcedEstablish(st, ch, n, user, prov, next)
        ELSE IF currentLeader # n
        THEN ForwardToLeader(st, n, currentLeader, user, prov, next)
        ELSE IF OwnerIsLive(n, smtpNodeId)
        THEN Invoke(st, next, Res(NULL, smtpNodeId, 0))
        ELSE IF smtpNodeId = n
        THEN EstablishSMTPConnection(st, ch, n, user, prov, next)
        ELSE \* callback is not checked: a queued caller goes on without one
             IF ch.peer # n
             THEN RemoteCall(Issue(a.st, n, user), n, ch.peer,
                             "establishSMTPConnection", user, prov, TRUE,
                             ConnectionCallback(n, user, a.first))
             ELSE EstablishSMTPConnection(Issue(a.st, n, user), ch, n, user, prov,
                                          ConnectionCallback(n, user, a.first))

\* sendMail(username, options, next) on node n: getSMTPConnection is called
\* with three arguments, so the callback getSMTPConnectionNodeId is its
\* parameter force (a function: true) and its parameter next is undefined
SendMail(st, ch, n, user, prov, next) ==
    GetSMTPConnection(st, ch, n, user, prov, TRUE, NotCallable)

\* the handler a remote call runs on node n: op(args..., callback)
Handle(st, ch, n, m) ==
    CASE m.op = "getSMTPConnection" ->
           GetSMTPConnection(st, ch, n, m.user, m.prov, m.force, m.cont)
      [] m.op = "establishSMTPConnection" ->
           \* called as (username, credentials, true, callback): next is true
           EstablishSMTPConnection(st, ch, n, m.user, m.prov, NotCallable)
      [] m.op = "getSMTPCredentials" ->
           GetSMTPCredentials(st, ch, n, m.user, m.prov, m.cont)
      [] m.op = "generateOAuthCredentials" ->
           \* registered as exports.generateGmailCredentials
           GenerateGmailCredentials(st, n, m.user, m.cont)
      [] m.op = "sendMail" ->
           SendMail(st, ch, n, m.user, m.prov, m.cont)
      [] m.op = "reply" -> Invoke(st, m.cont, m.res)
(***************************************************************************)
(* Initial state and steps                                                 *)
(***************************************************************************)
Last(op, n, user, prov, force) ==
    [op |-> op, n |-> n, user |-> user, prov |-> prov, force |-> force]

InitWith(requests) ==
    /\ maxReqs = requests
    /\ online = Nodes
    /\ cluster = [k \in OpKeys \cup {LeaderKey} |->
                     IF k = LeaderKey THEN "n1" ELSE NULL]
    /\ connectionCache = [n \in Nodes |-> <<>>]
    /\ credentialsCache = [n \in Nodes |-> <<>>]
    /\ callbackQueue = [n \in Nodes |-> [k \in OpKeys |-> <<>>]]
    /\ immediates = [n \in Nodes |-> <<>>]
    /\ msgs = EmptyBag
    /\ refreshing = {}
    /\ now = 1
    /\ reqs = <<>>
    /\ results = [i \in 1..MaxDirectReqs |-> <<>>]
    /\ issued = [n \in Nodes |-> [u \in Owners |-> 0]]
    /\ evicted = {}
    /\ last = Last("init", "", "", "", FALSE)
    /\ downs = 0
    /\ leaderChanges = 0
    /\ gmailDefined \in BOOLEAN
    \* this is only read on a path that needs generateGmailCredentials
    /\ thisBound \in IF gmailDefined THEN BOOLEAN ELSE {FALSE}

Init == InitWith(MaxReqs)

Choices == [peer : online, credPeer : online, closeThrows : BOOLEAN]

Env == <<online, now, downs, leaderChanges, maxReqs, thisBound, gmailDefined>>

\* a client calls an exported handler on node n; i is the request's number
ClientCall(op, n, user, prov, force) ==
    /\ Len(reqs) < maxReqs
    /\ reqs' = Append(reqs, Last(op, n, user, prov, force))
    /\ last' = Last(op, n, user, prov, force)
    /\ UNCHANGED Env

GetSMTPConnectionCall(n, user, prov, force) ==
    /\ ClientCall("getSMTPConnection", n, user, prov, force)
    /\ \E ch \in Choices :
         Commit(GetSMTPConnection(Cur, ch, n, user, prov, force,
                                  ClientCb(Len(reqs) + 1)))

EstablishSMTPConnectionCall(n, user, prov) ==
    /\ ClientCall("establishSMTPConnection", n, user, prov, FALSE)
    /\ \E ch \in Choices :
         Commit(EstablishSMTPConnection(Cur, ch, n, user, prov,
                                        ClientCb(Len(reqs) + 1)))

SendMailCall(n, user, prov) ==
    /\ ClientCall("sendMail", n, user, prov, FALSE)
    /\ \E ch \in Choices :
         Commit(SendMail(Cur, ch, n, user, prov, ClientCb(Len(reqs) + 1)))

GetSMTPCredentialsCall(n, user, prov) ==
    /\ ClientCall("getSMTPCredentials", n, user, prov, FALSE)
    /\ \E ch \in Choices :
         Commit(GetSMTPCredentials(Cur, ch, n, user, prov,
                                   ClientCb(Len(reqs) + 1)))

GenerateOAuthCredentialsCall(n, user) ==
    /\ ClientCall("generateOAuthCredentials", n, user, "gmail", FALSE)
    /\ Commit(GenerateOAuthCredentials(Cur, n, user, ClientCb(Len(reqs) + 1)))

\* the transport delivers a remote call or a reply to a live node
Deliver(m) ==
    /\ m.to \in online
    /\ \E ch \in Choices :
         Commit(Handle([Cur EXCEPT !.msgs = @ (-) SetToBag({m})], ch, m.to, m))
    /\ last' = Last(m.op, m.to, m.user, m.prov, m.force)
    /\ UNCHANGED <<reqs, Env>>

\* a remote call to a node that is down fails: its callback gets an error
RemoteCallFails(m) ==
    /\ m.op # "reply"
    /\ m.to \notin online
    /\ Commit(Invoke([Cur EXCEPT !.msgs = @ (-) SetToBag({m})], m.cont,
                     Res(ErrRemote, NULL, 0)))
    /\ last' = Last("remoteCallFails", m.to, m.user, m.prov, m.force)
    /\ UNCHANGED <<reqs, Env>>

\* the event loop of node n runs its oldest setImmediate callback
RunImmediate(n) ==
    /\ n \in online
    /\ immediates[n] # <<>>
    /\ LET i == Head(immediates[n]) IN
         Commit(Invoke([Cur EXCEPT !.immediates[n] = Tail(@)], i.cb, i.res))
    /\ last' = Last("immediate", n, "", "", FALSE)
    /\ UNCHANGED <<reqs, Env>>

\* xoauth2Instance.generateToken calls back regenerateOAuthToken: on success
\* the generator holds the new token; whether it records a timer is the
\* generator's business (the source never writes timer)
GenerateTokenDone(r, success, setsTimer) ==
    LET operationKey == ok("generateOAuthCredentials", r.user)
        token == r.token + 1
        cache == credentialsCache[r.n]
        i == LruIndex(cache, r.user)
        updated == IF i = 0 THEN cache
                   ELSE [cache EXCEPT ![i].token = token,
                                      ![i].timer = IF setsTimer THEN now ELSE 0,
                                      ![i].born = now]
        s0 == [Cur EXCEPT !.refreshing = @ \ {r}]
    IN  /\ r \in refreshing
        /\ IF success
           THEN Commit(Resolve([s0 EXCEPT !.credentialsCache[r.n] = updated],
                               r.n, operationKey, Res(NULL, NULL, token)))
           ELSE Commit(Resolve(s0, r.n, operationKey, Res(ErrRefresh, NULL, 0)))
        /\ last' = Last("generateTokenDone", r.n, r.user, "gmail", success)
        /\ UNCHANGED <<reqs, Env>>

\* time passes; the clock is only read when a generator holds a token
Tick ==
    /\ now + TickStep <= MaxTime
    /\ \E n \in Nodes : \E i \in 1..Len(credentialsCache[n]) :
          credentialsCache[n][i].token # 0
    /\ now' = now + TickStep
    /\ last' = Last("tick", "", "", "", FALSE)
    /\ UNCHANGED <<online, cluster, connectionCache, credentialsCache,
                   callbackQueue, immediates, msgs, refreshing, reqs, results,
                   issued, evicted, downs, leaderChanges, maxReqs, thisBound,
                   gmailDefined>>

\* the process of node n ends: its caches, queues and timers are gone; the
\* cluster store keeps what it was told
NodeDown(n) ==
    /\ downs < MaxDown
    /\ n \in online
    /\ online # {n}
    /\ online' = online \ {n}
    /\ downs' = downs + 1
    /\ connectionCache' = [connectionCache EXCEPT ![n] = <<>>]
    /\ credentialsCache' = [credentialsCache EXCEPT ![n] = <<>>]
    /\ callbackQueue' = [callbackQueue EXCEPT ![n] = [k \in OpKeys |-> <<>>]]
    /\ immediates' = [immediates EXCEPT ![n] = <<>>]
    /\ refreshing' = {r \in refreshing : r.n # n}
    /\ last' = Last("nodeDown", n, "", "", FALSE)
    /\ UNCHANGED <<cluster, msgs, now, reqs, results, issued, evicted,
                   leaderChanges, maxReqs, thisBound, gmailDefined>>

\* the leader is down and the cluster elects a live node leader
LeaderChange(n) ==
    /\ leaderChanges < MaxLeaderChanges
    /\ cluster[LeaderKey] \notin online
    /\ n \in online
    /\ cluster' = [cluster EXCEPT ![LeaderKey] = n]
    /\ leaderChanges' = leaderChanges + 1
    /\ last' = Last("leaderChange", n, "", "", FALSE)
    /\ UNCHANGED <<online, connectionCache, credentialsCache, callbackQueue,
                   immediates, msgs, refreshing, now, reqs, results, issued,
                   evicted, downs, maxReqs, thisBound, gmailDefined>>

\* owners are interchangeable: the first request is for u1
NamedOwners == IF reqs = <<>> THEN {"u1"} ELSE Owners

\* routing: connections are looked up, established and used while nodes go
\* down and the leader changes
Next ==
    \/ \E n \in online, user \in NamedOwners, prov \in RouteProviders,
          force \in BOOLEAN :
          GetSMTPConnectionCall(n, user, prov, force)
    \/ \E n \in online, user \in NamedOwners, prov \in RouteProviders :
          EstablishSMTPConnectionCall(n, user, prov)
    \/ \E n \in online, user \in NamedOwners, prov \in RouteProviders :
          SendMailCall(n, user, prov)
    \/ \E m \in BagToSet(msgs) : Deliver(m)
    \/ \E m \in BagToSet(msgs) : RemoteCallFails(m)
    \/ \E n \in Nodes : RunImmediate(n)
    \/ \E r \in refreshing, success \in BOOLEAN :
          GenerateTokenDone(r, success, FALSE)
    \/ \E n \in Nodes : NodeDown(n)
    \/ \E n \in Nodes : LeaderChange(n)

Spec == Init /\ [][Next]_vars

\* credentials: they are resolved and tokens generated while time passes
CredNext ==
    \/ \E n \in online, user \in NamedOwners, prov \in CredProviders :
          GetSMTPCredentialsCall(n, user, prov)
    \/ \E n \in online, user \in NamedOwners :
          GenerateOAuthCredentialsCall(n, user)
    \/ \E n \in online, user \in NamedOwners, prov \in CredProviders :
          EstablishSMTPConnectionCall(n, user, prov)
    \/ \E m \in BagToSet(msgs) : Deliver(m)
    \/ \E n \in Nodes : RunImmediate(n)
    \/ \E r \in refreshing, success \in BOOLEAN, setsTimer \in BOOLEAN :
          GenerateTokenDone(r, success, setsTimer)
    \/ Tick

CredSpec == Init /\ [][CredNext]_vars

\* runs of MaxDirectReqs requests in which clients call single handlers on
\* the nodes of their choice for gmail owners; no node goes down
DirectInit == InitWith(MaxDirectReqs)

\* token generation: direct generateOAuthCredentials calls
GenNext ==
    \/ \E n \in online, user \in NamedOwners :
          GenerateOAuthCredentialsCall(n, user)
    \/ \E r \in refreshing, success \in BOOLEAN, setsTimer \in BOOLEAN :
          GenerateTokenDone(r, success, setsTimer)
    \/ Tick

GenSpec == DirectInit /\ [][GenNext]_vars

\* establishing: forced getSMTPConnection calls for gmail owners and
\* establishSMTPConnection calls that name no supported provider
EstNext ==
    \/ \E n \in online, user \in NamedOwners :
          GetSMTPConnectionCall(n, user, "gmail", TRUE)
    \/ \E n \in online, user \in NamedOwners :
          EstablishSMTPConnectionCall(n, user, "unknown")
    \/ \E m \in BagToSet(msgs) : Deliver(m)
    \/ \E n \in Nodes : RunImmediate(n)
    \/ \E r \in refreshing, success \in BOOLEAN :
          GenerateTokenDone(r, success, FALSE)

\* the build in which generateGmailCredentials is the generator and callbacks
\* run with this = dispatcher, the one in which an establish can succeed
EstInit == DirectInit /\ gmailDefined /\ thisBound

EstSpec == EstInit /\ [][EstNext]_vars

(***************************************************************************)
(* The claims                                                              *)
(***************************************************************************)
ConnKey(u) == ok("getSMTPConnection", u)
CredKey(u) == ok("generateOAuthCredentials", u)
Holders(u) == {n \in online : LruHas(connectionCache[n], u)}
\* the step ran the named handler on node n for owner u
Ran(op, n, u) == last'.op = op /\ last'.n = n /\ last'.user = u
\* the messages a step put in flight
Sent == {m \in BagToSet(msgs') : CopiesIn(m, msgs') > CopiesIn(m, msgs)}
\* the messages a step took from the transport
Taken == {m \in BagToSet(msgs) : CopiesIn(m, msgs') < CopiesIn(m, msgs)}
\* the keys of the entries a step removed from a cache
Gone(c, d) == {c[i].key : i \in 1..Len(c)} \ {d[i].key : i \in 1..Len(d)}
LastOf(q) == q[Len(q)]

\* C1: for every owner at most one live node holds a connection for the owner
\* in its connectionCache.  Stated for the runs whose requests are all
\* unforced getSMTPConnection calls, a case of the claim: it fails there too.
C1_AtMostOneHolder ==
    (\A i \in 1..Len(reqs) : reqs[i].op = "getSMTPConnection" /\ ~reqs[i].force)
    => \A u \in Owners : Cardinality(Holders(u)) <= 1

\* C2: an unforced getSMTPConnection that reaches the leader while no valid
\* owner is recorded and an earlier request for the same owner is pending
\* (its establish call issued, its slot not resolved) issues no establish call
\* of its own.
C2_SingleEstablishCall ==
    [][\A n \in Nodes, u \in Owners :
          (/\ Ran("getSMTPConnection", n, u) /\ ~last'.force
           /\ cluster[LeaderKey] = n
           /\ ~OwnerIsLive(n, cluster[ConnKey(u)]) /\ cluster[ConnKey(u)] # n
           /\ callbackQueue[n][ConnKey(u)] # <<>>
           /\ issued[n][u] >= 1)
          => issued'[n][u] = issued[n][u]]_vars

\* C3: a sendMail received by a node that is neither the leader nor the
\* owner's home node is forwarded: the node does not establish a connection
\* for the owner.
C3_SendMailForwards ==
    [][\A n \in Nodes, u \in Owners :
          (/\ Ran("sendMail", n, u)
           /\ cluster[LeaderKey] # n
           /\ cluster[ConnKey(u)] # n)
          => (LruHas(connectionCache'[n], u) => LruHas(connectionCache[n], u))]_vars

\* C4: when a step removes an entry from the connectionCache or the
\* credentialsCache of a node that stays up, the key stored in the entry
\* reads null in the cluster store after the step.
C4_EvictionClearsPointer ==
    [][\A n \in online' :
          \A k \in Gone(connectionCache[n], connectionCache'[n])
                   \cup Gone(credentialsCache[n], credentialsCache'[n]) :
             cluster'[k] = NULL]_vars

\* an entry of each cache was disposed of and its key reads null
C4_Witness ==
    /\ \E e \in evicted : e[2][1] = "getSMTPConnection" /\ cluster[e[2]] = NULL
    /\ \E e \in evicted : e[2][1] = "generateOAuthCredentials" /\ cluster[e[2]] = NULL

\* C5: when the pointer of getSMTPConnection:u names a node that is down, an
\* unforced getSMTPConnection handled by the leader issues an establish call
\* and answers nobody with the id of the node that is down.
C5_DeadOwnerReassigned ==
    [][\A n \in Nodes, u \in Owners :
          LET d == cluster[ConnKey(u)] IN
          (/\ Ran("getSMTPConnection", n, u) /\ ~last'.force
           /\ cluster[LeaderKey] = n
           /\ d # NULL /\ d \notin online)
          => /\ issued'[n][u] = issued[n][u] + 1
             /\ \A i \in 1..MaxReqs :
                   results'[i] # results[i] => LastOf(results'[i]).id # d
             /\ \A m \in Sent : m.op = "reply" => m.res.id # d]_vars

\* the leader has just handled an unforced request for an owner whose pointer
\* names a node that is down, and has issued an establish call
C5_Witness ==
    /\ last.op = "getSMTPConnection" /\ ~last.force
    /\ last.n = cluster[LeaderKey]
    /\ cluster[ConnKey(last.user)] \notin online \cup {NULL}
    /\ issued[last.n][last.user] >= 1

\* C6: a node that is not the leader and handles an unforced getSMTPConnection
\* sends one remote getSMTPConnection with force = false to the node it reads
\* as leader and changes neither the cluster store, the single-flight queues
\* nor the caches; the reply to that call reaches the caller as it is.
C6_NonLeaderForwards ==
    [][/\ \A n \in Nodes, u \in Owners :
             (/\ Ran("getSMTPConnection", n, u) /\ ~last'.force
              /\ cluster[LeaderKey] # n)
             => /\ Cardinality(Sent) = 1
                /\ \A m \in Sent :
                      /\ CopiesIn(m, msgs') = CopiesIn(m, msgs) + 1
                      /\ m.to = cluster[LeaderKey]
                      /\ m.op = "getSMTPConnection" /\ ~m.force
                      /\ m.user = u /\ m.prov = last'.prov
                      /\ Head(m.cont) = Frame("reply", n, "", "", 0)
                /\ cluster' = cluster
                /\ callbackQueue' = callbackQueue
                /\ connectionCache' = connectionCache
                /\ credentialsCache' = credentialsCache
                /\ results' = results
       /\ \A m \in Taken : \A i \in 1..Len(reqs) :
             (/\ last'.op = "reply" /\ m.op = "reply" /\ m.to = last'.n
              /\ m.cont = ClientCb(i)
              /\ reqs[i].op = "getSMTPConnection" /\ ~reqs[i].force)
             => results'[i] = Append(results[i], m.res)]_vars

\* an unforced request made on a node that is not the leader was answered by
\* the leader
C6_Witness ==
    \E i \in 1..Len(reqs) :
       /\ reqs[i].op = "getSMTPConnection" /\ ~reqs[i].force
       /\ leaderChanges = 0 /\ reqs[i].n # cluster[LeaderKey]
       /\ results[i] # <<>> /\ results[i][1].err # ErrRemote

\* C10: when connectionCallback publishes the node an establish call answered
\* with, every waiter of the slot is resolved with it; when a request is
\* answered with an error, the pointer of its owner is left as it was.
C10_PublishAndResolve ==
    [][\A u \in Owners :
          /\ (cluster'[ConnKey(u)] # cluster[ConnKey(u)] /\ cluster'[ConnKey(u)] # NULL)
             => callbackQueue'[last'.n][ConnKey(u)] = <<>>
          /\ \A i \in 1..Len(reqs) :
                (/\ reqs[i].op = "getSMTPConnection" /\ reqs[i].user = u
                 /\ results'[i] # results[i]
                 /\ LastOf(results'[i]).err # NULL)
                => cluster'[ConnKey(u)] = cluster[ConnKey(u)]]_vars

\* C7: generateOAuthCredentials, called while no call for the owner is in
\* flight and the cached generator holds a token, answers with that token and
\* calls no refresh when the token was generated less than FreshnessWindow
\* ago, and calls the refresh when it was generated more than
\* FreshnessWindow ago.
C7_FreshReusedStaleRefreshed ==
    [][\A n \in Nodes, u \in Owners :
          LET c == credentialsCache[n]
              i == LruIndex(c, u)
          IN  (/\ Ran("generateOAuthCredentials", n, u)
               /\ reqs' # reqs
               /\ callbackQueue[n][CredKey(u)] = <<>>
               /\ i # 0 /\ c[i].token # 0)
              => /\ c[i].born + FreshnessWindow > now
                    => /\ refreshing' = refreshing
                       /\ results'[Len(reqs')] = <<Res(NULL, NULL, c[i].token)>>
                 /\ c[i].born + FreshnessWindow < now
                    => \E r \in refreshing' \ refreshing : r.n = n /\ r.user = u]_vars

\* C8: getSMTPCredentials with a provider that is neither gmail nor static
\* only schedules its caller's callback with the unsupported-provider error:
\* it sends nothing, registers no single-flight slot and leaves the cluster
\* store and both caches as they are; the caller gets that error, once.
C8_UnsupportedFailsLocally ==
    [][/\ \A n \in Nodes, u \in Owners :
             (/\ Ran("getSMTPCredentials", n, u)
              /\ last'.prov \notin StaticProviders \cup {"gmail"})
             => /\ Sent = {}
                /\ refreshing' = refreshing
                /\ callbackQueue' = callbackQueue
                /\ cluster' = cluster
                /\ connectionCache' = connectionCache
                /\ credentialsCache' = credentialsCache
                /\ results' = results
                /\ Len(immediates'[n]) = Len(immediates[n]) + 1
                /\ LastOf(immediates'[n]).res.err = ErrUnsupported
                /\ reqs' # reqs => LastOf(immediates'[n]).cb = ClientCb(Len(reqs'))
       /\ \A i \in 1..Len(reqs) :
             (/\ reqs[i].op = "getSMTPCredentials"
              /\ reqs[i].prov \notin StaticProviders \cup {"gmail"}
              /\ results'[i] # results[i])
             => results'[i] = <<Res(ErrUnsupported, NULL, 0)>>]_vars

\* a request with an unsupported provider was answered with the error
C8_Witness ==
    \E i \in 1..Len(reqs) :
       /\ reqs[i].op = "getSMTPCredentials" /\ reqs[i].prov = "unknown"
       /\ results[i] = <<Res(ErrUnsupported, NULL, 0)>>

\* C9: a getSMTPCredentials or establishSMTPConnection request with a static
\* provider is answered without an error, establishSMTPConnection with the
\* id of its node.
C9_StaticSucceeds ==
    \A i \in 1..Len(reqs) :
       (/\ reqs[i].op \in {"getSMTPCredentials", "establishSMTPConnection"}
        /\ reqs[i].prov \in StaticProviders)
       => \A j \in 1..Len(results[i]) :
             /\ results[i][j].err = NULL
             /\ reqs[i].op = "establishSMTPConnection"
                => results[i][j].id = reqs[i].n

\* C11: a generateOAuthCredentials or establishSMTPConnection request that is
\* answered with an error (the token refresh or the credential resolution
\* failed) leaves no trace: being the only request of the run, the caches of
\* its node are empty and no pointer is published when it has been answered.
C11_FailureLeavesNoTrace ==
    (/\ Len(reqs) = 1
     /\ reqs[1].op \in {"generateOAuthCredentials", "establishSMTPConnection"}
     /\ reqs[1].prov \notin StaticProviders
     /\ results[1] # <<>> /\ results[1][1].err # NULL)
    => /\ connectionCache[reqs[1].n] = <<>>
       /\ credentialsCache[reqs[1].n] = <<>>
       /\ \A k \in OpKeys : cluster[k] = NULL

\* C12: an establishSMTPConnection that inserts an entry into a full
\* connectionCache clears the pointer of the least recently used entry and
\* goes on to resolve the credentials (with an unsupported provider: it
\* schedules the callback with the error), whether or not close() throws.
C12_CloseFailureSwallowed ==
    [][\A n \in Nodes, u \in Owners :
          (/\ Ran("establishSMTPConnection", n, u)
           /\ ~LruHas(connectionCache[n], u) /\ LruHas(connectionCache'[n], u)
           /\ Len(connectionCache[n]) >= ConnCacheMax)
          => /\ cluster'[connectionCache[n][1].key] = NULL
             /\ last'.prov = "unknown"
                => Len(immediates'[n]) = Len(immediates[n]) + 1]_vars

EstKey(u) == ok("establishSMTPConnection", u)
GetCredKey(u) == ok("getSMTPCredentials", u)

\* C13: a getSMTPCredentials for a gmail owner that reaches the leader while
\* the leader caches no credential entry for the owner, no live peer is
\* recorded as the owner of the generation and an earlier request for the
\* owner is pending in the slot, its generation call in flight, issues no
\* generation call, remote or local.
C13_SingleGenerationCall ==
    [][\A n \in Nodes, u \in Owners :
          (/\ Ran("getSMTPCredentials", n, u) /\ last'.prov = "gmail"
           /\ cluster[LeaderKey] = n
           /\ ~LruHas(credentialsCache[n], u)
           /\ ~OwnerIsLive(n, cluster[CredKey(u)])
           /\ callbackQueue[n][GetCredKey(u)] # <<>>
           /\ \E m \in BagToSet(msgs) :
                 m.op = "generateOAuthCredentials" /\ m.user = u)
          => /\ Sent = {}
             /\ refreshing' = refreshing
             /\ callbackQueue'[n][CredKey(u)] = callbackQueue[n][CredKey(u)]]_vars

\* C14: a forced getSMTPConnection sends no getSMTPConnection and no
\* establishSMTPConnection call to any node and registers its callback under
\* the getSMTPConnection key of its node.  When a request for the key is
\* pending it does nothing more.  Otherwise an establish on this node has its
\* connectionCallback waiting, or has completed and published this node's id.
\* A pointer is only ever published by a step of the node it names.
C14_ForcedEstablishesHere ==
    [][\A n \in Nodes, u \in Owners :
          /\ (Ran("getSMTPConnection", n, u) /\ last'.force)
             => /\ \A m \in Sent :
                      m.op \notin {"getSMTPConnection", "establishSMTPConnection"}
                /\ cluster'[LeaderKey] = cluster[LeaderKey]
                /\ IF callbackQueue[n][ConnKey(u)] # <<>>
                   THEN /\ Len(callbackQueue'[n][ConnKey(u)])
                              = Len(callbackQueue[n][ConnKey(u)]) + 1
                        /\ [callbackQueue' EXCEPT ![n][ConnKey(u)] = <<>>]
                              = [callbackQueue EXCEPT ![n][ConnKey(u)] = <<>>]
                        /\ Sent = {}
                        /\ UNCHANGED <<cluster, connectionCache, credentialsCache,
                                       immediates, refreshing, results, issued>>
                   ELSE \/ \E i \in 1..Len(callbackQueue'[n][EstKey(u)]) :
                              callbackQueue'[n][EstKey(u)][i]
                                 = ConnectionCallback(n, u, TRUE)
                        \/ /\ cluster'[ConnKey(u)] = n
                           /\ callbackQueue'[n][ConnKey(u)] = <<>>
          /\ (cluster'[ConnKey(u)] # cluster[ConnKey(u)] /\ cluster'[ConnKey(u)] = n)
             => last'.n = n]_vars

\* two forced requests for one owner on one node: the second waited for the
\* first, both were answered with the node's id and the pointer names the node
C14_Witness ==
    /\ Len(reqs) = 2
    /\ \A i \in 1..2 :
          /\ reqs[i].op = "getSMTPConnection" /\ reqs[i].force
          /\ reqs[i].n = reqs[1].n /\ reqs[i].user = reqs[1].user
          /\ results[i] = <<Res(NULL, reqs[1].n, 0)>>
    /\ cluster[ConnKey(reqs[1].user)] = reqs[1].n
    /\ issued[reqs[1].n][reqs[1].user] = 0

\* nothing is in flight: no remote call or reply, no setImmediate callback,
\* no token refresh
Quiescent ==
    /\ msgs = EmptyBag
    /\ refreshing = {}
    /\ \A n \in Nodes : immediates[n] = <<>>

\* C15: when two establishSMTPConnection calls for one owner were made on
\* one node and nothing is in flight any more, one handle was constructed
\* (the cache of the node holds one entry and nothing was disposed of) and
\* each caller's callback has been invoked exactly once.
C15_OneHandleEveryCallerAnswered ==
    (/\ Len(reqs) = 2
     /\ \A i \in 1..2 :
           /\ reqs[i].op = "establishSMTPConnection"
           /\ reqs[i].n = reqs[1].n /\ reqs[i].user = reqs[1].user
     /\ Quiescent)
    => /\ \A i \in 1..2 : Len(results[i]) = 1
       /\ Len(connectionCache[reqs[1].n]) = 1
       /\ evicted = {}

\* C16: a generateOAuthCredentials call that finds an entry for the owner in
\* the credentialsCache of its node leaves the cluster store as it is.
C16_PointerWrittenOnCreationOnly ==
    [][\A n \in Nodes, u \in Owners :
          (/\ Ran("generateOAuthCredentials", n, u)
           /\ LruHas(credentialsCache[n], u))
          => cluster' = cluster]_vars

\* C18: a step that removes owner u's entry from the connectionCache of node
\* a while the pointer of getSMTPConnection:u names another live node that
\* holds a handle for u leaves that pointer as it is.
C18_EvictionSparesOtherOwner ==
    [][\A a \in Nodes, u \in Owners :
          LET b == cluster[ConnKey(u)] IN
          (/\ ConnKey(u) \in Gone(connectionCache[a], connectionCache'[a])
           /\ b # NULL /\ b # a /\ b \in online
           /\ LruHas(connectionCache[b], u))
          => cluster'[ConnKey(u)] = b]_vars

\* C19: in the build in which generateGmailCredentials is the generator and
\* callbacks run with this = dispatcher, with every node up and one unforced
\* getSMTPConnection the only request of the run: once nothing is in flight
\* any more (every remote call and token refresh has responded), the request
\* has had its callback invoked exactly once and no getSMTPConnection slot is
\* pending.
C19_EveryRequestAnswered ==
    (/\ gmailDefined /\ thisBound /\ downs = 0
     /\ Len(reqs) = 1
     /\ reqs[1].op = "getSMTPConnection" /\ ~reqs[1].force
     /\ Quiescent)
    => /\ Len(results[1]) = 1
       /\ \A n \in Nodes, u \in Owners : callbackQueue[n][ConnKey(u)] = <<>>
=============================================================================
